---- MODULE Spec2Model ----
(***************************************************************************)
(* Model of the transcript indexer and search engine of                    *)
(* web-app/server/index.js (the current server, lines 298-859): the index  *)
(* build (buildIndex), the process life cycle (start, crash, restart) and  *)
(* the request handlers that read the indexes.                             *)
(*                                                                         *)
(* Text is modelled as sequences of chunks: a chunk is one punctuation     *)
(* character or one whole word, so every string operation of the code      *)
(* (startsWith, split, replace, trim, length) is computed on the chunks.   *)
(***************************************************************************)
EXTENDS Integers, Sequences, FiniteSets, TLC

(***************************************************************************)
(* Bounds of the model.                                                    *)
(***************************************************************************)
MaxShows == 51
SmallShows == 3
MaxBest == 1
MaxSearchShows == 4
MaxQueryLen == 3
MaxWords == 3
MaxPageShows == 402
MaxPages == 3
MaxCsvRows == 2

(***************************************************************************)
(* Program constants.                                                      *)
(***************************************************************************)
BatchSize == 50
YieldEvery == 50
PageSize == 100
MinFuzzyLen == 3

VARIABLES
    nShow,          \* filesystem: number of *.txt files under TRANSCRIPTS_DIR
    nBest,          \* filesystem: number of *.md files under BEST_OF_DIR
    csvExists,      \* filesystem: nrs_shows.csv is present
    csv,            \* filesystem: the data rows of nrs_shows.csv
    porter,         \* disk: rows of transcripts_fts
    trigram,        \* disk: rows of transcripts_fts_trigram
    shows,          \* disk: rows of the registry table shows
    show_links,     \* disk: rows of the link table show_links
    marker,         \* disk: metadata row is_indexed_v9 has value 'true'
    pc,             \* position of the process / of buildIndex
    downFrom,       \* the position the process was at when it last went down
    isIndexed,      \* let isIndexed
    indexingProgress, \* let indexingProgress = { current, total }
    allFiles,       \* const allFiles (the enumerated files)
    i,              \* loop index of the ingestion loop
    batch,          \* let batch
    showsBatch,     \* let showsBatch
    readFailed,     \* files whose readFileSync threw during this build
    resp            \* the response of the request handled last

disk == <<porter, trigram, shows, show_links, marker>>
fsys == <<nShow, nBest, csvExists, csv>>
proc == <<pc, downFrom, isIndexed, indexingProgress, allFiles, i, batch, showsBatch, readFailed>>
vars == <<nShow, nBest, csvExists, csv, porter, trigram, shows, show_links, marker,
          pc, downFrom, isIndexed, indexingProgress, allFiles, i, batch,
          showsBatch, readFailed, resp>>

(***************************************************************************)
(* Chunks of text.                                                         *)
(***************************************************************************)
Q == "\""
SP == " "
HY == "-"
AP == "'"
LP == "("
RP == ")"

(***************************************************************************)
(* The corpus: what the files on disk contain.  A line is a record of its  *)
(* shape (after trim) and the word it carries.                             *)
(*   marker  : starts with "[" and includes "-->"                          *)
(*   bracket : starts with "[" but has no "-->" (for example "[music]")    *)
(*   text    : any other non-blank line                                    *)
(*   blank   : empty after trim                                            *)
(*   ts      : begins with a clock timestamp followed by text (best-of)    *)
(*   dot     : the lone separator "."                                      *)
(***************************************************************************)
Ln(k, w) == [k |-> k, w |-> w]

ShowLines(n) ==
    CASE n % 4 = 1 -> << Ln("marker", ""), Ln("text", "jorge"), Ln("text", "and"),
                         Ln("text", "suds"), Ln("blank", ""), Ln("marker", ""),
                         Ln("text", "george"), Ln("blank", "") >>
      [] n % 4 = 2 -> << Ln("text", "rick"), Ln("marker", ""), Ln("text", "suds"),
                         Ln("marker", ""), Ln("text", "ricky") >>
      [] n % 4 = 3 -> << Ln("blank", "") >>
      [] OTHER     -> << Ln("marker", ""), Ln("marker", ""), Ln("bracket", "music"),
                         Ln("text", "sud"), Ln("text", "rick") >>

BestLines(n) ==
    << Ln("text", "best"), Ln("text", "http"), Ln("ts", "suds"), Ln("dot", ""),
       Ln("text", "jorge"), Ln("blank", ""), Ln("ts", "george") >>

ShowFile(n) == [type |-> "show", n |-> n]
BestFile(n) == [type |-> "best_of", n |-> n]

FileLines(f) == IF f.type = "show" THEN ShowLines(f.n) ELSE BestLines(f.n)

\* A file name is a sequence of pieces: a run of digits (its value and its
\* length) or any other text.
NameText(s) == [k |-> "text", s |-> s, v |-> 0, len |-> 0]
NameDigits(v, len) == [k |-> "digits", s |-> "", v |-> v, len |-> len]

\* path.basename(file): the corpus names the odd shows rogers-20000101.txt
\* and the even shows lassiter-19990101.txt, except every tenth show, whose
\* name carries no date, and the shows 5, 15, 25, ..., whose name begins with
\* a year; a best-of file is named 1999.md.
FileName(f) ==
    IF f.type = "best_of" THEN << NameDigits(1999, 4), NameText(".md") >>
    ELSE CASE f.n % 10 = 0 -> << NameText("notes"), NameText(".txt") >>
           [] f.n % 10 = 5 -> << NameDigits(1999, 4), NameText("-special"), NameText(".txt") >>
           [] f.n % 10 \notin {0, 5} /\ f.n % 2 = 1 ->
                 << NameText("rogers"), NameText("-"), NameDigits(2000, 4),
                    NameDigits(1, 2), NameDigits(1, 2), NameText(".txt") >>
           [] OTHER ->
                 << NameText("lassiter"), NameText("-"), NameDigits(1999, 4),
                    NameDigits(1, 2), NameDigits(1, 2), NameText(".txt") >>

\* /(?:rogers|lassiter)-(\d{8})/ matches at piece k
HostDateAt(filename, k) ==
    /\ k + 4 <= Len(filename)
    /\ filename[k] \in {NameText("rogers"), NameText("lassiter")}
    /\ filename[k + 1] = NameText("-")
    /\ filename[k + 2].k = "digits" /\ filename[k + 2].len = 4
    /\ filename[k + 3].k = "digits" /\ filename[k + 3].len = 2
    /\ filename[k + 4].k = "digits" /\ filename[k + 4].len = 2

HasHostDate(filename) == \E k \in 1..Len(filename) : HostDateAt(filename, k)

\* -${d.substring(4, 6)}-${d.substring(6, 8)}
MonthDay(m, d) ==
    CASE m = 1 /\ d = 1 -> "-01-01"
      [] m = 12 /\ d = 31 -> "-12-31"
      [] OTHER -> "-mm-dd"

UnknownDate == [year |-> 0, rest |-> "Unknown Date"]

getDateFromFilename(filename) ==
    IF HasHostDate(filename)
    THEN LET k == CHOOSE k \in 1..Len(filename) :
                    HostDateAt(filename, k) /\ \A j \in 1..(k - 1) : ~HostDateAt(filename, j)
         IN [year |-> filename[k + 2].v,
             rest |-> MonthDay(filename[k + 3].v, filename[k + 4].v)]
    ELSE IF filename # <<>> /\ filename[1].k = "digits" /\ filename[1].len >= 4
    THEN [year |-> filename[1].v, rest |-> "-12-31"]
    ELSE UnknownDate

DateOf(f) == getDateFromFilename(FileName(f))

\* path.relative(TRANSCRIPTS_DIR, file), or best-of/<filename>
RelativePath(f) == f

(***************************************************************************)
(* glob: the enumerated files, shows first, then best-of files.            *)
(***************************************************************************)
Enumerate(ns, nb) ==
    [k \in 1..(ns + nb) |-> IF k <= ns THEN ShowFile(k) ELSE BestFile(k - ns)]

(***************************************************************************)
(* The parser: the segments of one file.                                   *)
(***************************************************************************)
\* A faulty variant: the segment id is the file path alone
DocIdIsFile(f, j, text) ==
    [id |-> <<RelativePath(f)>>, file |-> RelativePath(f), line |-> j,
     date |-> DateOf(f), text_content |-> text, type |-> f.type]

Doc(f, j, text) ==
    [id |-> <<RelativePath(f), j>>, file |-> RelativePath(f), line |-> j,
     date |-> DateOf(f), text_content |-> text, type |-> f.type]

\* The show branch: the loop over lines with currentDoc; j is the 0-based
\* line number, cur is currentDoc (<<>> for null, else <<doc>>).
RECURSIVE ShowLoop(_, _, _, _, _)
ShowLoop(f, lines, j, cur, out) ==
    IF j >= Len(lines) THEN (IF cur = <<>> THEN out ELSE Append(out, cur[1]))
    ELSE LET line == lines[j + 1] IN
         IF line.k = "blank" THEN ShowLoop(f, lines, j + 1, cur, out)
         ELSE IF line.k = "marker"
              THEN ShowLoop(f, lines, j + 1, << Doc(f, j, <<>>) >>,
                            IF cur = <<>> THEN out ELSE Append(out, cur[1]))
         ELSE IF cur # <<>>
              THEN ShowLoop(f, lines, j + 1,
                            << [cur[1] EXCEPT !.text_content = @ \o <<SP, line.w>>] >>, out)
         ELSE ShowLoop(f, lines, j + 1, cur, out)

\* A faulty variant: the lines before the first marker open a segment at
\* line 0
ParseShowFromTop(f, lines) ==
    ShowLoop(f, lines, 0,
             IF Len(lines) > 0 /\ lines[1].k = "text" THEN << Doc(f, 0, <<>>) >> ELSE <<>>,
             <<>>)

ParseShow(f, lines) == ShowLoop(f, lines, 0, <<>>, <<>>)

\* The best-of branch: lines from index 2 on that match the timestamp pattern.
RECURSIVE BestLoop(_, _, _, _)
BestLoop(f, lines, j, out) ==
    IF j >= Len(lines) THEN out
    ELSE LET line == lines[j + 1] IN
         IF line.k \in {"blank", "dot"} THEN BestLoop(f, lines, j + 1, out)
         ELSE IF line.k = "ts"
              THEN BestLoop(f, lines, j + 1, Append(out, Doc(f, j, <<"0:42", SP, line.w>>)))
         ELSE BestLoop(f, lines, j + 1, out)

ParseBest(f, lines) == BestLoop(f, lines, 2, <<>>)

ParseFile(f) ==
    IF f.type = "best_of" THEN ParseBest(f, FileLines(f)) ELSE ParseShow(f, FileLines(f))

\* The registry row pushed to showsBatch for one file.
ShowRow(f) ==
    IF f.type = "best_of"
    THEN [date |-> DateOf(f), file |-> RelativePath(f), type |-> f.type,
          youtube_url |-> (IF Len(FileLines(f)) >= 2 /\ FileLines(f)[2].k # "blank"
                           THEN FileLines(f)[2].w ELSE ""),
          custom_title |-> (IF Len(FileLines(f)) >= 1 /\ FileLines(f)[1].k # "blank"
                            THEN FileLines(f)[1].w ELSE "filename")]
    ELSE [date |-> DateOf(f), file |-> RelativePath(f), type |-> f.type,
          youtube_url |-> "null", custom_title |-> "null"]

Range(s) == {s[k] : k \in 1..Len(s)}

(***************************************************************************)
(* insertMany: one transaction that inserts every doc into both indexes    *)
(* and every registry row (INSERT OR REPLACE by file) into shows.          *)
(***************************************************************************)
PorterInsert(rows, docs) == rows \cup Range(docs)

\* A faulty variant: the insert into the trigram index is left out of the transaction
TrigramInsertNone(rows, docs) == rows

TrigramInsert(rows, docs) == rows \cup Range(docs)

\* A faulty variant: a file that yields no segment gets no registry row
ShowsInsertWithSegments(rows, srows) ==
    {r \in rows : \A s \in Range(srows) : s.file # r.file}
        \cup {s \in Range(srows) : ParseFile(s.file) # <<>>}

\* A faulty variant: the registry rows are left out of the transaction
ShowsInsertNone(rows, srows) == rows

ShowsInsert(rows, srows) ==
    {r \in rows : \A s \in Range(srows) : s.file # r.file} \cup Range(srows)

(***************************************************************************)
(* nrs_shows.csv.  A data row is the record of its fields after the split  *)
(* on unquoted commas, with the quotes removed and the field trimmed: n is *)
(* the number of fields, date the first, init the second, youtube the      *)
(* third, host the sixth and custom_title the seventh.                     *)
(***************************************************************************)
NoDate == [year |-> 0, rest |-> ""]

CsvRow(n, date, init, youtube, host, custom_title) ==
    [n |-> n, date |-> date, init |-> init, youtube |-> youtube, host |-> host,
     custom_title |-> custom_title]

\* s.startsWith("http")
StartsWithHttp(u) == u \in {"http", "http-a", "http-b"}

\* The rows the CSV sync of buildIndex keeps: at least three fields, a date,
\* and a URL that starts with http.
Admitted(row) ==
    row.n >= 3 /\ row.date # NoDate /\ row.youtube # "" /\ StartsWithHttp(row.youtube)

\* [cleanDate, cleanYoutube, cleanHost, cleanCustomTitle]
LinkOf(row) ==
    [date |-> row.date, youtube_url |-> row.youtube,
     host |-> (IF StartsWithHttp(row.host) THEN "" ELSE row.host),
     custom_title |-> row.custom_title]

\* insertLink: INSERT OR REPLACE INTO show_links, whose primary key is date
InsertLink(table, link) == {l \in table : l.date # link.date} \cup {link}

RECURSIVE InsertLinks(_, _)
InsertLinks(table, links) ==
    IF links = <<>> THEN table
    ELSE InsertLinks(InsertLink(table, Head(links)), Tail(links))

Links(rows) == [k \in 1..Len(SelectSeq(rows, Admitted)) |-> LinkOf(SelectSeq(rows, Admitted)[k])]

\* The link table the CSV sync leaves: DELETE FROM show_links, then one
\* insertLink for each admitted row, in one transaction.
CsvLinks == InsertLinks({}, Links(csv))

\* update_links.js keeps the rows of at least three fields whose init is NRS
\* and whose URL starts with http, and writes date and youtube_url only.
ScriptAdmitted(row) ==
    row.n >= 3 /\ row.init = "NRS" /\ row.youtube # "" /\ StartsWithHttp(row.youtube)

ScriptLinkOf(row) ==
    [date |-> row.date, youtube_url |-> row.youtube, host |-> "null", custom_title |-> "null"]

ScriptLinks(rows) ==
    [k \in 1..Len(SelectSeq(rows, ScriptAdmitted)) |->
        ScriptLinkOf(SelectSeq(rows, ScriptAdmitted)[k])]

\* The file the build and the search specifications read: two rows for one
\* date.
DefaultCsv ==
    << CsvRow(7, [year |-> 1999, rest |-> "-01-01"], "NRS", "http-a", "", ""),
       CsvRow(7, [year |-> 1999, rest |-> "-01-01"], "NRS", "http", "", "") >>

(***************************************************************************)
(* What a complete build over the files on disk leaves in the tables.      *)
(***************************************************************************)
DocsOfFiles(files, n) == UNION {Range(ParseFile(files[k])) : k \in 1..n}

RowsOfFiles(files, n) == {ShowRow(files[k]) : k \in 1..n}

NoResp == [kind |-> "none"]

(***************************************************************************)
(* The process.  pc is the position of the process:                        *)
(*   down         not running (never started, exited or crashed)           *)
(*   drop_fts, drop_trigram, drop_shows   buildIndex, before each DROP     *)
(*   glob         buildIndex awaits the enumeration of the files           *)
(*   yield        buildIndex awaits setImmediate before file i             *)
(*   file         buildIndex is about to read file i                       *)
(*   flush, sync, mark   the final flush, the CSV sync, the marker write   *)
(*   done         buildIndex has returned                                  *)
(*   aborted      buildIndex has thrown (its promise is rejected)          *)
(*   idle         the process started with the marker true: no build       *)
(* Requests are handled only where the build awaits or has ended.          *)
(***************************************************************************)
Serving == {"glob", "yield", "done", "aborted", "idle"}
Dropping == {"drop_fts", "drop_trigram", "drop_shows"}
Ingesting == {"glob", "yield", "file", "flush"}
Building == Dropping \cup Ingesting \cup {"sync", "mark"}

NoProgress == [current |-> 0, total |-> 0]

\* The corpora of the model: the small ones, and the ones that fill a batch
\* or exceed it by a file or more.
ShowCounts == {n \in 0..MaxShows : n <= SmallShows \/ n >= BatchSize}

Init ==
    /\ nShow \in ShowCounts
    /\ nBest \in 0..MaxBest
    /\ csvExists \in BOOLEAN
    /\ csv = DefaultCsv
    /\ \E old \in BOOLEAN :
         \* a fresh database, or one that holds the complete generation an
         \* older schema version built from the same files (its marker has
         \* another key)
         /\ porter = IF old THEN DocsOfFiles(Enumerate(nShow, nBest), nShow + nBest) ELSE {}
         /\ trigram = porter
         /\ shows = IF old THEN RowsOfFiles(Enumerate(nShow, nBest), nShow + nBest) ELSE {}
         /\ show_links = IF old /\ csvExists THEN CsvLinks ELSE {}
         /\ downFrom = IF old THEN "done" ELSE "never"
    /\ marker = FALSE
    /\ pc = "down"
    /\ isIndexed = FALSE
    /\ indexingProgress = NoProgress
    /\ allFiles = <<>>
    /\ i = 0
    /\ batch = <<>>
    /\ showsBatch = <<>>
    /\ readFailed = {}
    /\ resp = NoResp

\* A faulty variant: the marker is not found (another key is read): always rebuild
BootIgnoresMarker ==
    /\ pc = "down"
    /\ isIndexed' = FALSE
    /\ indexingProgress' = NoProgress
    /\ pc' = "drop_fts"
    /\ allFiles' = <<>> /\ i' = 0 /\ batch' = <<>> /\ showsBatch' = <<>>
    /\ readFailed' = {}
    /\ resp' = NoResp
    /\ UNCHANGED <<downFrom, disk, fsys>>

\* Module load: createTables, read the marker into isIndexed, and call
\* buildIndex when it is not set.
Boot ==
    /\ pc = "down"
    /\ isIndexed' = marker
    /\ indexingProgress' = NoProgress
    /\ pc' = IF marker THEN "idle" ELSE "drop_fts"
    /\ allFiles' = <<>> /\ i' = 0 /\ batch' = <<>> /\ showsBatch' = <<>>
    /\ readFailed' = {}
    /\ resp' = NoResp
    /\ UNCHANGED <<downFrom, disk, fsys>>

\* db.exec(`DROP TABLE IF EXISTS transcripts_fts`)
DropPorter ==
    /\ pc = "drop_fts"
    /\ porter' = {}
    /\ pc' = "drop_trigram"
    /\ UNCHANGED <<trigram, shows, show_links, marker, fsys, downFrom, isIndexed,
                   indexingProgress, allFiles, i, batch, showsBatch, readFailed, resp>>

\* db.exec(`DROP TABLE IF EXISTS transcripts_fts_trigram`)
DropTrigram ==
    /\ pc = "drop_trigram"
    /\ trigram' = {}
    /\ pc' = "drop_shows"
    /\ UNCHANGED <<porter, shows, show_links, marker, fsys, downFrom, isIndexed,
                   indexingProgress, allFiles, i, batch, showsBatch, readFailed, resp>>

\* A faulty variant: the drop step also empties the link table
DropShowsAndLinks ==
    /\ pc = "drop_shows"
    /\ shows' = {}
    /\ show_links' = {}
    /\ pc' = "glob"
    /\ UNCHANGED <<porter, trigram, marker, fsys, downFrom, isIndexed,
                   indexingProgress, allFiles, i, batch, showsBatch, readFailed, resp>>

\* db.exec(`DROP TABLE IF EXISTS shows`); createTables(); then await glob
DropShows ==
    /\ pc = "drop_shows"
    /\ shows' = {}
    /\ pc' = "glob"
    /\ UNCHANGED <<porter, trigram, show_links, marker, fsys, downFrom, isIndexed,
                   indexingProgress, allFiles, i, batch, showsBatch, readFailed, resp>>

\* The head of the ingestion loop for index k over n files: where the build
\* goes next.
\* A faulty variant: the loop yields after the first file of every 50
\* instead of before it
LoopPcYieldsLate(k, n) ==
    IF k < n THEN (IF k % YieldEvery = 1 THEN "yield" ELSE "file") ELSE "flush"

LoopPc(k, n) ==
    IF k < n THEN (IF k % YieldEvery = 0 THEN "yield" ELSE "file") ELSE "flush"

LoopProgress(k, n, prog) ==
    IF k < n THEN [prog EXCEPT !.current = k + 1] ELSE prog

\* Both globs resolve: allFiles, indexingProgress.total, and the loop head.
GlobDone ==
    /\ pc = "glob"
    /\ allFiles' = Enumerate(nShow, nBest)
    /\ i' = 0
    /\ indexingProgress' =
          LoopProgress(0, nShow + nBest, [indexingProgress EXCEPT !.total = nShow + nBest])
    /\ pc' = LoopPc(0, nShow + nBest)
    /\ resp' = NoResp
    /\ UNCHANGED <<disk, fsys, downFrom, isIndexed, batch, showsBatch, readFailed>>

\* setImmediate fires: the loop body goes on with file i.
Resume ==
    /\ pc = "yield"
    /\ pc' = "file"
    /\ resp' = NoResp
    /\ UNCHANGED <<disk, fsys, downFrom, isIndexed, indexingProgress, allFiles, i,
                   batch, showsBatch, readFailed>>

\* One iteration of the loop body with a readable file: parse, push, flush
\* the batch when showsBatch holds BatchSize rows, then the next loop head.
ProcessFile ==
    /\ pc = "file"
    /\ LET f == allFiles[i + 1]
           b == batch \o ParseFile(f)
           sb == Append(showsBatch, ShowRow(f))
           full == Len(sb) >= BatchSize
       IN /\ porter' = IF full THEN PorterInsert(porter, b) ELSE porter
          /\ trigram' = IF full THEN TrigramInsert(trigram, b) ELSE trigram
          /\ shows' = IF full THEN ShowsInsert(shows, sb) ELSE shows
          /\ batch' = IF full THEN <<>> ELSE b
          /\ showsBatch' = IF full THEN <<>> ELSE sb
    /\ i' = i + 1
    /\ pc' = LoopPc(i + 1, Len(allFiles))
    /\ indexingProgress' = LoopProgress(i + 1, Len(allFiles), indexingProgress)
    /\ resp' = NoResp
    /\ UNCHANGED <<show_links, marker, fsys, downFrom, isIndexed, allFiles, readFailed>>

\* fs.readFileSync throws: nothing catches it in buildIndex, so the async
\* function ends with a rejected promise that the call site does not handle.
ReadFails ==
    /\ pc = "file"
    /\ readFailed' = readFailed \cup {allFiles[i + 1]}
    /\ pc' = "aborted"
    /\ resp' = NoResp
    /\ UNCHANGED <<disk, fsys, downFrom, isIndexed, indexingProgress, allFiles, i,
                   batch, showsBatch>>

\* A faulty variant: the rows left in the batches after the loop are never inserted
FinalFlushSkipped ==
    /\ pc = "flush"
    /\ pc' = "sync"
    /\ resp' = NoResp
    /\ UNCHANGED <<disk, fsys, downFrom, isIndexed, indexingProgress,
                   allFiles, i, batch, showsBatch, readFailed>>

\* if (batch.length > 0 || showsBatch.length > 0) insertMany(batch, showsBatch, [])
FinalFlush ==
    /\ pc = "flush"
    /\ LET any == Len(batch) > 0 \/ Len(showsBatch) > 0
       IN /\ porter' = IF any THEN PorterInsert(porter, batch) ELSE porter
          /\ trigram' = IF any THEN TrigramInsert(trigram, batch) ELSE trigram
          /\ shows' = IF any THEN ShowsInsert(shows, showsBatch) ELSE shows
    /\ pc' = "sync"
    /\ resp' = NoResp
    /\ UNCHANGED <<show_links, marker, fsys, downFrom, isIndexed, indexingProgress,
                   allFiles, i, batch, showsBatch, readFailed>>

\* A faulty variant: the sync deletes the link rows and inserts none
SyncLinksDeleteOnly ==
    /\ pc = "sync"
    /\ show_links' = IF csvExists THEN {} ELSE show_links
    /\ pc' = "mark"
    /\ resp' = NoResp
    /\ UNCHANGED <<porter, trigram, shows, marker, fsys, downFrom, isIndexed,
                   indexingProgress, allFiles, i, batch, showsBatch, readFailed>>

\* The CSV sync: when nrs_shows.csv exists, one transaction deletes every
\* link row and inserts the admitted rows.
SyncLinks ==
    /\ pc = "sync"
    /\ show_links' = IF csvExists THEN CsvLinks ELSE show_links
    /\ pc' = "mark"
    /\ resp' = NoResp
    /\ UNCHANGED <<porter, trigram, shows, marker, fsys, downFrom, isIndexed,
                   indexingProgress, allFiles, i, batch, showsBatch, readFailed>>

\* A faulty variant: the marker row is written but the ready flag is not set
MarkCompleteFlagUnset ==
    /\ pc = "mark"
    /\ marker' = TRUE
    /\ pc' = "done"
    /\ resp' = NoResp
    /\ UNCHANGED <<porter, trigram, shows, show_links, fsys, downFrom, isIndexed,
                   indexingProgress, allFiles, i, batch, showsBatch, readFailed>>

\* Mark complete: the marker row, then isIndexed = true.
MarkComplete ==
    /\ pc = "mark"
    /\ marker' = TRUE
    /\ isIndexed' = TRUE
    /\ pc' = "done"
    /\ resp' = NoResp
    /\ UNCHANGED <<porter, trigram, shows, show_links, fsys, downFrom,
                   indexingProgress, allFiles, i, batch, showsBatch, readFailed>>

\* The process dies (a crash, a kill, an exit on the unhandled rejection):
\* everything in memory is lost, the disk keeps what was committed.
Crash ==
    /\ pc # "down"
    /\ downFrom' = pc
    /\ pc' = "down"
    /\ isIndexed' = FALSE
    /\ indexingProgress' = NoProgress
    /\ allFiles' = <<>> /\ i' = 0 /\ batch' = <<>> /\ showsBatch' = <<>>
    /\ readFailed' = {}
    /\ resp' = NoResp
    /\ UNCHANGED <<disk, fsys>>

BuildNext ==
    \/ Boot
    \/ DropPorter
    \/ DropTrigram
    \/ DropShows
    \/ GlobDone
    \/ Resume
    \/ ProcessFile
    \/ ReadFails
    \/ FinalFlush
    \/ SyncLinks
    \/ MarkComplete
    \/ Crash

(***************************************************************************)
(* Strings as chunk sequences.                                             *)
(***************************************************************************)
Punct == {Q, SP, HY, AP, LP, RP}

\* \w+ : the chunk is a word
IsWord(c) == c \notin Punct

\* The number of characters of a chunk.
ChunkLen(c) ==
    CASE c \in Punct -> 1
      [] c \in {"zz", "OR", "or"} -> 2
      [] c \in {"and", "AND", "sud", "ric", "NOT", "not"} -> 3
      [] c \in {"suds", "rick", "0:42"} -> 4
      [] c = "jorge" -> 5
      [] c = "george" -> 6
      [] c = "constructor" -> 11
      [] OTHER -> 5

RECURSIVE StrLen(_)
StrLen(s) == IF s = <<>> THEN 0 ELSE ChunkLen(Head(s)) + StrLen(Tail(s))

ToLower(c) ==
    CASE c = "AND" -> "and"
      [] c = "OR" -> "or"
      [] c = "NOT" -> "not"
      [] OTHER -> c

ToUpper(c) ==
    CASE c = "and" -> "AND"
      [] c = "or" -> "OR"
      [] c = "not" -> "NOT"
      [] c = "jorge" -> "JORGE"
      [] c = "george" -> "GEORGE"
      [] c = "suds" -> "SUDS"
      [] c = "sud" -> "SUD"
      [] c = "rick" -> "RICK"
      [] c = "ricky" -> "RICKY"
      [] c = "ric" -> "RIC"
      [] c = "zz" -> "ZZ"
      [] c = "constructor" -> "CONSTRUCTOR"
      [] OTHER -> c

toLowerCase(s) == [k \in 1..Len(s) |-> ToLower(s[k])]
toUpperCase(s) == [k \in 1..Len(s) |-> ToUpper(s[k])]

RECURSIVE TrimLeft(_)
TrimLeft(s) == IF s # <<>> /\ Head(s) = SP THEN TrimLeft(Tail(s)) ELSE s

RECURSIVE TrimRight(_)
TrimRight(s) ==
    IF s # <<>> /\ s[Len(s)] = SP THEN TrimRight(SubSeq(s, 1, Len(s) - 1)) ELSE s

trim(s) == TrimRight(TrimLeft(s))

Without(s, chars) == SelectSeq(s, LAMBDA c : c \notin chars)

\* s.includes(t)
Includes(s, t) ==
    \E k \in 1..(Len(s) - Len(t) + 1) : SubSeq(s, k, k + Len(t) - 1) = t

\* parts.join(sep)
RECURSIVE Join(_, _)
Join(parts, sep) ==
    IF parts = <<>> THEN <<>>
    ELSE IF Len(parts) = 1 THEN parts[1]
    ELSE parts[1] \o sep \o Join(Tail(parts), sep)

\* s.split(/\s+/).filter((w) => w.length > 0): the maximal runs without SP
RECURSIVE SplitWs(_, _, _)
SplitWs(s, cur, out) ==
    IF s = <<>> THEN (IF cur = <<>> THEN out ELSE Append(out, cur))
    ELSE IF Head(s) = SP
         THEN SplitWs(Tail(s), <<>>, IF cur = <<>> THEN out ELSE Append(out, cur))
    ELSE SplitWs(Tail(s), Append(cur, Head(s)), out)

\* The places where /\s+AND\s+/i matches: a word and/AND with white space on
\* both sides.
AndAt(s) ==
    {k \in 2..(Len(s) - 1) : ToUpper(s[k]) = "AND" /\ s[k - 1] = SP /\ s[k + 1] = SP}

Min(S) == CHOOSE x \in S : \A y \in S : x <= y

\* query.split(/\s+AND\s+/i), each part trimmed
RECURSIVE SplitAnd(_)
SplitAnd(s) ==
    IF AndAt(s) = {} THEN << trim(s) >>
    ELSE LET k == Min(AndAt(s))
         IN << trim(SubSeq(s, 1, k - 1)) >>
              \o SplitAnd(TrimLeft(SubSeq(s, k + 1, Len(s))))

(***************************************************************************)
(* expandQuery.  The result is [ok, s]: ok is FALSE when the function      *)
(* throws.  NEIL_THESAURUS is a plain object, so a lookup also finds the   *)
(* properties every object inherits ("constructor"): such a value is       *)
(* truthy and has no join method, and calling it throws a TypeError.       *)
(***************************************************************************)
ThesaurusKeys == {"jorge", "george"}
InheritedKeys == {"constructor"}
ThesaurusGroup == << LP, "jorge", SP, "OR", SP, "george", RP >>

QuoteChars == {Q, AP}

IsVerbatim(query) ==
    Len(query) > 0 /\ query[1] = Q /\ query[Len(query)] = Q /\ StrLen(query) > 1

Thrown == [ok |-> FALSE, s |-> <<>>]

ExpandWord(word) ==
    LET cleanWord == SelectSeq(word, IsWord)
    IN IF Len(cleanWord) = 1 /\ cleanWord[1] \in ThesaurusKeys
       THEN [ok |-> TRUE, s |-> ThesaurusGroup]
       ELSE IF Len(cleanWord) = 1 /\ cleanWord[1] \in InheritedKeys
       THEN Thrown
       ELSE [ok |-> TRUE, s |-> IF cleanWord # <<>> THEN cleanWord ELSE word]

expandQuery(query) ==
    IF IsVerbatim(query) THEN [ok |-> TRUE, s |-> query]
    ELSE LET sanitized == Without(query, QuoteChars)
             words == SplitWs(toLowerCase(sanitized), <<>>, <<>>)
             expandedParts == [k \in 1..Len(words) |-> ExpandWord(words[k])]
         IN IF \E k \in 1..Len(words) : ~expandedParts[k].ok
            THEN Thrown
            ELSE [ok |-> TRUE,
                  s |-> Join([k \in 1..Len(words) |-> expandedParts[k].s], <<SP>>)]

(***************************************************************************)
(* The FTS5 MATCH of SQLite, as far as the expressions the server sends    *)
(* use it.  Tokens: ( ) AND OR NOT, bare words, "strings"; any other       *)
(* character outside a string is a syntax error, as is an unterminated     *)
(* string.                                                                 *)
(***************************************************************************)
Tk(t, w) == [t |-> t, w |-> w]

\* The index of the quote that closes a string whose content starts at k
\* ("" inside a string is an escaped quote); 0 when none closes it.
RECURSIVE StrEnd(_, _)
StrEnd(s, k) ==
    IF k > Len(s) THEN 0
    ELSE IF s[k] = Q
         THEN (IF k + 1 <= Len(s) /\ s[k + 1] = Q THEN StrEnd(s, k + 2) ELSE k)
    ELSE StrEnd(s, k + 1)

\* The index of the last chunk of the bare word that starts at k.
RECURSIVE WordEnd(_, _)
WordEnd(s, k) == IF k + 1 <= Len(s) /\ IsWord(s[k + 1]) THEN WordEnd(s, k + 1) ELSE k

RECURSIVE Tokens(_, _, _)
Tokens(s, k, out) ==
    IF k > Len(s) THEN out
    ELSE IF s[k] = SP THEN Tokens(s, k + 1, out)
    ELSE IF s[k] = LP THEN Tokens(s, k + 1, Append(out, Tk("LP", <<>>)))
    ELSE IF s[k] = RP THEN Tokens(s, k + 1, Append(out, Tk("RP", <<>>)))
    ELSE IF s[k] = Q
         THEN LET e == StrEnd(s, k + 1)
              IN IF e = 0 THEN Append(out, Tk("BAD", <<>>))
                 ELSE Tokens(s, e + 1, Append(out, Tk("STR", SubSeq(s, k + 1, e - 1))))
    ELSE IF IsWord(s[k])
         THEN LET e == WordEnd(s, k)
                  run == SubSeq(s, k, e)
              IN IF e = k /\ s[k] \in {"AND", "OR", "NOT"}
                 THEN Tokens(s, e + 1, Append(out, Tk(s[k], <<>>)))
                 ELSE Tokens(s, e + 1, Append(out, Tk("TERM", run)))
    ELSE Append(out, Tk("BAD", <<>>))

\* The Porter stemmer on the words of the corpus and of the queries.
Stem(w) ==
    CASE w = "suds" -> "sud"
      [] w = "jorge" -> "jorg"
      [] w = "george" -> "georg"
      [] w = "ricky" -> "ricki"
      [] OTHER -> w

\* The words of a text: the maximal runs of word chunks.
RECURSIVE WordsOf(_, _, _)
WordsOf(s, cur, out) ==
    IF s = <<>> THEN (IF cur = <<>> THEN out ELSE Append(out, cur))
    ELSE IF IsWord(Head(s)) THEN WordsOf(Tail(s), Append(cur, Head(s)), out)
    ELSE WordsOf(Tail(s), <<>>, IF cur = <<>> THEN out ELSE Append(out, cur))

\* The porter tokenizer: lower case, then the stem of each word.
PorterWord(run) ==
    IF Len(run) = 1 THEN << Stem(ToLower(run[1])) >> ELSE toLowerCase(run)

PorterTokens(s) ==
    LET ws == WordsOf(s, <<>>, <<>>) IN [k \in 1..Len(ws) |-> PorterWord(ws[k])]

\* Character-level relations between the chunks of the vocabulary, for the
\* substring match of the trigram tokenizer (case-insensitive).
IsPrefix(a, b) ==
    a = b \/ <<a, b>> \in {<<"sud", "suds">>, <<"ric", "rick">>,
                           <<"ric", "ricky">>, <<"rick", "ricky">>}
IsSuffix(a, b) == a = b
IsInfix(a, b) == IsPrefix(a, b) \/ IsSuffix(a, b)

\* The string p occurs in the text t at chunk k.
OccursAt(p, t, k) ==
    /\ k + Len(p) - 1 <= Len(t)
    /\ IF Len(p) = 1 THEN IsInfix(p[1], t[k])
       ELSE /\ IsSuffix(p[1], t[k])
            /\ IsPrefix(p[Len(p)], t[k + Len(p) - 1])
            /\ \A j \in 2..(Len(p) - 1) : p[j] = t[k + j - 1]

\* One phrase (a bare word or a string) against one row of an index.
PhraseMatch(tok, doc, table) ==
    IF table = "transcripts_fts"
    THEN LET p == PorterTokens(tok.w)
             t == PorterTokens(doc.text_content)
         IN p # <<>> /\ Includes(t, p)
    ELSE LET p == toLowerCase(tok.w)
             t == toLowerCase(doc.text_content)
         IN StrLen(p) >= 3 /\ \E k \in 1..Len(t) : OccursAt(p, t, k)

\* The parser, evaluating the expression on one row as it goes: an operator
\* precedence parse with a stack of values and a stack of pending operators.
\* precedence: OR < AND < NOT < implicit AND; no implicit AND next to ( ).
\* last is what the parser has just read: "need" (nothing, an operator or
\* "(": an operand must follow), "phrase" or "close" (a ")").
SyntaxError == [ok |-> FALSE, v |-> FALSE]

Prec(op) == CASE op = "OR" -> 1 [] op = "AND" -> 2 [] op = "NOT" -> 3 [] OTHER -> 0

Apply(op, a, b) ==
    CASE op = "OR" -> a \/ b
      [] op = "AND" -> a /\ b
      [] OTHER -> a /\ ~b

Pop(st) == SubSeq(st, 1, Len(st) - 1)

\* Apply the pending operators that bind at least as tightly as minPrec.
RECURSIVE Reduce(_, _, _)
Reduce(vals, ops, minPrec) ==
    IF ops # <<>> /\ ops[Len(ops)] # "LP" /\ Prec(ops[Len(ops)]) >= minPrec
    THEN Reduce(Append(Pop(Pop(vals)),
                       Apply(ops[Len(ops)], vals[Len(vals) - 1], vals[Len(vals)])),
                Pop(ops), minPrec)
    ELSE [vals |-> vals, ops |-> ops]

RECURSIVE ParseExpr(_, _, _, _, _, _)
ParseExpr(ts, doc, table, vals, ops, last) ==
    IF ts = <<>>
    THEN IF last = "need" THEN SyntaxError
         ELSE LET r == Reduce(vals, ops, 1)
              IN IF r.ops # <<>> THEN SyntaxError ELSE [ok |-> TRUE, v |-> r.vals[1]]
    ELSE LET t == ts[1] IN
         IF t.t \in {"TERM", "STR"}
         THEN IF last = "need"
              THEN ParseExpr(Tail(ts), doc, table,
                             Append(vals, PhraseMatch(t, doc, table)), ops, "phrase")
              ELSE IF last = "phrase"
              THEN ParseExpr(Tail(ts), doc, table,
                             Append(Pop(vals), vals[Len(vals)] /\ PhraseMatch(t, doc, table)),
                             ops, "phrase")
              ELSE SyntaxError
         ELSE IF t.t = "LP"
         THEN IF last = "need"
              THEN ParseExpr(Tail(ts), doc, table, vals, Append(ops, "LP"), "need")
              ELSE SyntaxError
         ELSE IF t.t = "RP"
         THEN IF last = "need" THEN SyntaxError
              ELSE LET r == Reduce(vals, ops, 1)
                   IN IF r.ops = <<>> THEN SyntaxError
                      ELSE ParseExpr(Tail(ts), doc, table, r.vals, Pop(r.ops), "close")
         ELSE IF t.t \in {"OR", "AND", "NOT"}
         THEN IF last = "need" THEN SyntaxError
              ELSE LET r == Reduce(vals, ops, Prec(t.t))
                   IN ParseExpr(Tail(ts), doc, table, r.vals, Append(r.ops, t.t), "need")
         ELSE SyntaxError

NoDoc == [text_content |-> <<>>]

\* The expression is one FTS5 accepts.
ValidMatch(expr) == ParseExpr(Tokens(expr, 1, <<>>), NoDoc, "transcripts_fts", <<>>, <<>>, "need").ok

\* The row matches the (valid) expression, given as its tokens, in the table.
MatchesTokens(toks, doc, table) == ParseExpr(toks, doc, table, <<>>, <<>>, "need").v

(***************************************************************************)
(* The request handlers.                                                   *)
(***************************************************************************)
\* Math.round((a / b) * 100) as JSON: <<>> is null (NaN, from 0 / 0).
ProgressPercent(a, b) == IF b = 0 THEN <<>> ELSE << (200 * a + b) \div (2 * b) >>

\* ORDER BY rank (bm25 of one occurrence of the term): the shorter segment
\* first, and among segments of one length the order of insertion (the
\* order of the files, then of the lines).
RankKey(d) ==
    StrLen(d.text_content) * 2^21
        + (IF d.type = "best_of" THEN 1000 ELSE 0) * 1000 + d.file.n * 1000 + d.line

\* The rows of S, whose rank keys lie in lo..hi, in rank order: the rows of
\* the lower half of the key range, then those of the upper half.
RECURSIVE SortKeys(_, _, _)
SortKeys(S, lo, hi) ==
    IF S = {} THEN <<>>
    ELSE IF lo = hi \/ Cardinality(S) = 1 THEN << CHOOSE d \in S : TRUE >>
    ELSE LET mid == (lo + hi) \div 2
         IN SortKeys({d \in S : RankKey(d) <= mid}, lo, mid)
              \o SortKeys({d \in S : RankKey(d) > mid}, mid + 1, hi)

SortByRank(S) == SortKeys(S, 0, 2^27)

\* LIMIT 100 OFFSET offset
Page(rows, offset) ==
    SubSeq(rows, offset + 1, IF offset + PageSize < Len(rows) THEN offset + PageSize ELSE Len(rows))

TableRows(tableName) == IF tableName = "transcripts_fts" THEN porter ELSE trigram

\* A faulty variant: the file sets of the parts are joined by UNION
InSomePart(file, partFiles) == \E k \in 1..Len(partFiles) : file \in partFiles[k]

\* t.file IN (SELECT file ... INTERSECT SELECT file ...): the file is in the
\* file set of every part.
InEveryPart(file, partFiles) == \A k \in 1..Len(partFiles) : file \in partFiles[k]

\* A faulty variant: the type and year conditions are joined by OR
FiltersOred(d, typeValue, years) ==
    \/ d.type = typeValue
    \/ years # <<>> /\ \E y \in Range(years) : d.date.year = y

\* AND t.type = ? AND (t.date LIKE ? OR ...): the type filter and, when years
\* are given, the year filter (a year matches the dates that begin with it).
Filters(d, typeValue, years) ==
    /\ d.type = typeValue
    /\ years # <<>> => \E y \in Range(years) : d.date.year = y

\* The statement of getSearchResults before LIMIT and OFFSET apply:
\* [st, rows, sent]; st is "threw" when the call throws, rows are all the
\* hits in rank order, sent holds the match expressions bound to the
\* statement.
SearchHits(tableName, query, queryString, isAndSearch, years, typeParam) ==
    LET tab == TableRows(tableName)
        parts == SplitAnd(query)
        exp == [k \in 1..Len(parts) |-> expandQuery(parts[k])]
    IN IF isAndSearch /\ \E k \in 1..Len(parts) : ~exp[k].ok
       THEN [st |-> "threw", rows |-> <<>>, sent |-> {}]
       ELSE LET expandedParts == [k \in 1..Len(parts) |-> exp[k].s]
                finalMatchQuery ==
                    IF isAndSearch
                    THEN <<LP>> \o Join(expandedParts, <<SP, "OR", SP>>) \o <<RP>>
                    ELSE queryString
                sent == {finalMatchQuery}
                          \cup (IF isAndSearch THEN Range(expandedParts) ELSE {})
                typeValue == IF typeParam = "" THEN "show" ELSE typeParam
                toks == Tokens(finalMatchQuery, 1, <<>>)
                outer == {d \in tab : MatchesTokens(toks, d, tableName)}
                partFiles ==
                    [k \in 1..Len(parts) |->
                       LET pt == Tokens(expandedParts[k], 1, <<>>)
                       IN {d.file : d \in {x \in tab : MatchesTokens(pt, x, tableName)}}]
                hits == {d \in outer :
                           /\ isAndSearch => InEveryPart(d.file, partFiles)
                           /\ Filters(d, typeValue, years)}
                \* the IN subquery runs when the first row is tested
                rejected ==
                    \/ ~ValidMatch(finalMatchQuery)
                    \/ /\ isAndSearch
                       /\ outer # {}
                       /\ \E k \in 1..Len(parts) : ~ValidMatch(expandedParts[k])
            IN IF rejected
               THEN [st |-> "threw", rows |-> <<>>, sent |-> sent]
               ELSE [st |-> "ok", rows |-> SortByRank(hits), sent |-> sent]

\* getSearchResults: the page of the hits at currentOffset.
GetSearchResults(tableName, query, queryString, isAndSearch, years, typeParam, offset) ==
    LET h == SearchHits(tableName, query, queryString, isAndSearch, years, typeParam)
    IN [h EXCEPT !.rows = Page(@, offset)]

NotRun == [st |-> "no", rows |-> <<>>, sent |-> {}]

\* The directory of a show under TRANSCRIPTS_DIR ("**/*.txt" descends into
\* subdirectories): a few shows are filed in a subdirectory named best-of.
SubDir(f) == IF f.type = "show" /\ f.n % 50 = 4 THEN "best-of" ELSE ""

\* The file is on disk.
OnDisk(f) == f.n <= (IF f.type = "show" THEN nShow ELSE nBest)

\* The full path of a source file: a directory and the path below it.
PathOf(f) ==
    [dir |-> IF f.type = "best_of" THEN "transcripts" ELSE "transcripts/timestamps",
     rel |-> f]

\* relPath.startsWith("best-of/"): true of `best-of/${filename}` and of the
\* relative path of a show filed under TRANSCRIPTS_DIR/best-of.
StartsWithBestOf(relPath) == relPath.type = "best_of" \/ SubDir(relPath) = "best-of"

getFullPath(relPath) ==
    [dir |-> IF StartsWithBestOf(relPath) THEN "transcripts" ELSE "transcripts/timestamps",
     rel |-> relPath]

\* A file exists at the path and can be read.
CanRead(fullPath) == fullPath = PathOf(fullPath.rel) /\ OnDisk(fullPath.rel)

\* The snippet of one hit: lines startLine..endLine of the file as read now,
\* or the stored text when the read throws.
Snippet(hit) ==
    IF CanRead(getFullPath(hit.file))
    THEN LET lines == FileLines(getFullPath(hit.file).rel)
             startLine == IF hit.line < 0 THEN 0 ELSE hit.line
             endLine == IF hit.line + 6 < Len(lines) - 1 THEN hit.line + 6 ELSE Len(lines) - 1
         IN [src |-> "file", lines |-> SubSeq(lines, startLine + 1, endLine + 1),
             text |-> <<>>]
    ELSE [src |-> "stored", lines |-> <<>>, text |-> hit.text_content]

\* results.map(...): one snippet per hit, in the order of the hits.
Enrich(rows) == [k \in 1..Len(rows) |-> Snippet(rows[k])]

\* The rows are the hits; the snippet that the response carries with hit k
\* is snippets[k].
SearchResp(status, query, rows, p, f) ==
    [kind |-> "search", status |-> status, q |-> query, rows |-> rows,
     snippets |-> Enrich(rows), progress |-> <<>>, porter |-> p, fuzzy |-> f]

\* A faulty variant: the fallback does not look at the quotes
FuzzyFallbackQuoted(query, results) ==
    Len(results) = 0 /\ StrLen(query) >= MinFuzzyLen

\* A faulty variant: the fallback does not look at the length of the query
FuzzyFallbackShort(query, results) ==
    ~IsVerbatim(query) /\ Len(results) = 0

\* The fuzzy fallback runs.
FuzzyFallback(query, results) ==
    ~IsVerbatim(query) /\ Len(results) = 0 /\ StrLen(query) >= MinFuzzyLen

\* A faulty variant: the expansion is only trimmed
CleanedTrimOnly(expandedQuery) == trim(expandedQuery)

\* cleanedQuery: the expansion without double quotes and parentheses, trimmed
Cleaned(expandedQuery) == trim(Without(expandedQuery, {Q, LP, RP}))

\* The response of the search handler, given cleanedQuery, the outcome p of
\* the stemmed call and the outcome f the fallback call has when it runs.
Respond(query, cleanedQuery, p, f) ==
    IF cleanedQuery = <<>> THEN SearchResp(200, query, <<>>, NotRun, NotRun)
    ELSE IF p.st = "threw" THEN SearchResp(200, query, <<>>, p, NotRun)
    ELSE IF ~FuzzyFallback(query, p.rows)
         THEN SearchResp(200, query, p.rows, p, NotRun)
    ELSE IF f.st = "threw" THEN SearchResp(500, query, <<>>, p, f)
    ELSE SearchResp(200, query, f.rows, p, f)

\* isAndSearch
IsAndSearch(expandedQuery) == Includes(toUpperCase(expandedQuery), <<SP, "AND", SP>>)

\* app.get("/api/search") once the index is ready and the query not blank.
SearchReady(query, years, typeParam, offset) ==
    LET e == expandQuery(query)
    IN IF ~e.ok THEN SearchResp(500, query, <<>>, NotRun, NotRun)
       ELSE Respond(query, Cleaned(e.s),
                    GetSearchResults("transcripts_fts", query, e.s,
                                     IsAndSearch(e.s), years, typeParam, offset),
                    GetSearchResults("transcripts_fts_trigram", query, e.s,
                                     IsAndSearch(e.s), years, typeParam, offset))

\* The response, with the parameters of the request it answers.
WithRequest(r, years, typeParam, offset) ==
    r @@ [years |-> years, type |-> typeParam, offset |-> offset]

\* A faulty variant: the handler does not look at isIndexed
SearchServesAlways == TRUE

\* The guard of the search handler: the index is ready.
SearchServes == isIndexed

Search(query, years, typeParam, offset) ==
    /\ pc \in Serving
    /\ resp = NoResp
    /\ resp' = WithRequest(
                 IF ~SearchServes
                 THEN [SearchResp(503, query, <<>>, NotRun, NotRun) EXCEPT
                         !.progress = ProgressPercent(indexingProgress.current,
                                                      indexingProgress.total)]
                 ELSE IF trim(query) = <<>>
                 THEN SearchResp(200, query, <<>>, NotRun, NotRun)
                 ELSE SearchReady(query, years, typeParam, offset),
                 years, typeParam, offset)
    /\ UNCHANGED <<disk, fsys, proc>>

\* A faulty variant: the status handler resets the progress counters
StatusResetsProgress ==
    /\ pc \in Serving
    /\ resp = NoResp
    /\ resp' = [kind |-> "status", ready |-> isIndexed,
                progress |-> IF indexingProgress.total # 0
                             THEN ProgressPercent(indexingProgress.current,
                                                  indexingProgress.total)
                             ELSE <<0>>,
                totalFiles |-> indexingProgress.total]
    /\ indexingProgress' = NoProgress
    /\ UNCHANGED <<disk, fsys, pc, downFrom, isIndexed, allFiles, i,
                   batch, showsBatch, readFailed>>

\* A faulty variant: the status handler calls buildIndex() again while the
\* index is not ready
StatusStartsBuild ==
    /\ pc \in Serving
    /\ resp = NoResp
    /\ resp' = [kind |-> "status", ready |-> isIndexed,
                progress |-> IF indexingProgress.total # 0
                             THEN ProgressPercent(indexingProgress.current,
                                                  indexingProgress.total)
                             ELSE <<0>>,
                totalFiles |-> indexingProgress.total]
    /\ pc' = IF isIndexed THEN pc ELSE "drop_fts"
    /\ UNCHANGED <<disk, fsys, downFrom, isIndexed, indexingProgress, allFiles, i,
                   batch, showsBatch, readFailed>>

\* app.get("/api/status")
Status ==
    /\ pc \in Serving
    /\ resp = NoResp
    /\ resp' = [kind |-> "status", ready |-> isIndexed,
                progress |-> IF indexingProgress.total # 0
                             THEN ProgressPercent(indexingProgress.current,
                                                  indexingProgress.total)
                             ELSE <<0>>,
                totalFiles |-> indexingProgress.total]
    /\ UNCHANGED <<disk, fsys, proc>>

\* app.get("/api/shows")
ListShows(years, typeParam) ==
    /\ pc \in Serving
    /\ resp = NoResp
    /\ resp' = IF ~isIndexed
               THEN [kind |-> "shows", status |-> 503, rows |-> {},
                     progress |-> ProgressPercent(indexingProgress.current,
                                                  indexingProgress.total)]
               ELSE [kind |-> "shows", status |-> 200,
                     rows |-> {r \in shows :
                                 /\ r.type = (IF typeParam = "" THEN "show" ELSE typeParam)
                                 /\ years # <<>> => \E y \in Range(years) : r.date.year = y},
                     progress |-> <<>>]
    /\ UNCHANGED <<disk, fsys, proc>>

\* app.get("/api/transcript"): the file is sent when it exists.
Transcript(f) ==
    /\ pc \in Serving
    /\ resp = NoResp
    /\ resp' = [kind |-> "transcript",
                status |-> IF CanRead(getFullPath(f)) THEN 200 ELSE 404,
                file |-> f]
    /\ UNCHANGED <<disk, fsys, proc>>

\* The response has left the process: the next request can be handled.
Deliver ==
    /\ resp # NoResp
    /\ resp' = NoResp
    /\ UNCHANGED <<disk, fsys, proc>>

(***************************************************************************)
(* The requests the specifications draw from.                              *)
(***************************************************************************)
BuildQueries ==
    { <<>>, <<"suds">>, <<"jorge">>, <<"constructor">>, <<Q, "zz", Q>>,
      <<"jorge", SP, "AND", SP, "suds">> }

Requests ==
    \/ \E query \in BuildQueries : Search(query, <<>>, "", 0)
    \/ Status
    \/ \E typeParam \in {"", "best_of"} : ListShows(<<>>, typeParam)
    \/ \E f \in {ShowFile(1), BestFile(1)} : Transcript(f)
    \/ Deliver

Next == BuildNext \/ Requests

Spec == Init /\ [][Next]_vars

(***************************************************************************)
(* The search engine on its own: the process has started warm on a         *)
(* complete index (a state Spec reaches after a finished build and a       *)
(* restart), and search requests draw their query from every short chunk   *)
(* sequence and from every phrase of a few words, bare or quoted.          *)
(***************************************************************************)
ShortAlphabet == {Q, SP, HY, "zz", "ric"}
PhraseWords == {"jorge", "suds", "and", "AND"}

SeqsUpTo(S, n) == UNION {[1..k -> S] : k \in 0..n}

\* w1 w2 ... wn
Spaced(ws) == Join([k \in 1..Len(ws) |-> <<ws[k]>>], <<SP>>)

PhraseQueries ==
    LET bare == {Spaced(ws) : ws \in SeqsUpTo(PhraseWords, MaxWords) \ {<<>>}}
    IN bare \cup {<<Q>> \o b \o <<Q>> : b \in bare}

\* Queries with quotes inside their parts: x AND "a"b" AND "c"d"
OddQuoted(w) == <<Q, w, Q, w, Q>>
QuotedPartQueries ==
    { <<w>> \o <<SP, "AND", SP>> \o OddQuoted("zz") \o <<SP, "AND", SP>> \o OddQuoted("zz") :
        w \in {"ric", "suds", "zz"} }

AllQueries == SeqsUpTo(ShortAlphabet, MaxQueryLen) \cup PhraseQueries \cup QuotedPartQueries

SearchInit ==
    /\ nShow \in {0, MaxSearchShows}
    /\ nBest \in {0, MaxBest}
    /\ csvExists = TRUE
    /\ csv = DefaultCsv
    /\ porter = DocsOfFiles(Enumerate(nShow, nBest), nShow + nBest)
    /\ trigram = porter
    /\ shows = RowsOfFiles(Enumerate(nShow, nBest), nShow + nBest)
    /\ show_links = CsvLinks
    /\ marker = TRUE
    /\ pc = "idle"
    /\ downFrom = "done"
    /\ isIndexed = TRUE
    /\ indexingProgress = NoProgress
    /\ allFiles = <<>>
    /\ i = 0
    /\ batch = <<>>
    /\ showsBatch = <<>>
    /\ readFailed = {}
    /\ resp = NoResp

SearchNext ==
    \/ /\ resp = NoResp
       /\ \E query \in AllQueries, years \in {<<>>, <<1999>>},
             typeParam \in {"", "best_of"}, offset \in {0, PageSize} :
               Search(query, years, typeParam, offset)
    \/ Deliver

SearchSpec == SearchInit /\ [][SearchNext]_vars

(***************************************************************************)
(* Pagination: the process has started warm on the complete index of a     *)
(* corpus large enough for a query to have a page of hits and more, and    *)
(* requests ask for the successive pages.                                  *)
(***************************************************************************)
PageShows == {MaxPageShows - 4, MaxPageShows - 2, MaxPageShows}
PageQueries == { <<"rick">>, <<"ricky">>, <<"suds">>, <<"ric">>, <<Q, "rick", Q>> }
PageOffsets == {k * PageSize : k \in 0..MaxPages}

PageInit ==
    /\ nShow \in PageShows
    /\ nBest \in {0, MaxBest}
    /\ csvExists = TRUE
    /\ csv = DefaultCsv
    /\ porter = DocsOfFiles(Enumerate(nShow, nBest), nShow + nBest)
    /\ trigram = porter
    /\ shows = RowsOfFiles(Enumerate(nShow, nBest), nShow + nBest)
    /\ show_links = CsvLinks
    /\ marker = TRUE
    /\ pc = "idle"
    /\ downFrom = "done"
    /\ isIndexed = TRUE
    /\ indexingProgress = NoProgress
    /\ allFiles = <<>>
    /\ i = 0
    /\ batch = <<>>
    /\ showsBatch = <<>>
    /\ readFailed = {}
    /\ resp = NoResp

PageNext ==
    \/ /\ resp = NoResp
       /\ \E query \in PageQueries, years \in {<<>>, <<1999>>},
             typeParam \in {"", "best_of"}, offset \in PageOffsets :
               Search(query, years, typeParam, offset)
    \/ Deliver

PageSpec == PageInit /\ [][PageNext]_vars

(***************************************************************************)
(* The link table: the build over an empty corpus has finished ingestion   *)
(* and is about to run the CSV sync (a state Spec reaches), the link table *)
(* holds what earlier passes over an earlier file left, and nrs_shows.csv  *)
(* holds any few rows.  update_links.js is run from the command line on    *)
(* the same database, at any time.                                         *)
(***************************************************************************)
Day1 == [year |-> 1999, rest |-> "-01-01"]
Day2 == [year |-> 2000, rest |-> "-01-01"]
Day0 == [year |-> 1998, rest |-> "-01-01"]

CsvRowKinds ==
    { CsvRow(7, Day1, "NRS", "http-a", "", ""),
      CsvRow(7, Day1, "NRS", "http-b", "neil", "title"),
      CsvRow(7, Day2, "GH", "http-a", "http-b", ""),
      CsvRow(7, Day2, "NRS", "", "", ""),
      CsvRow(7, Day1, "NRS", "ftp", "", ""),
      CsvRow(7, NoDate, "NRS", "http-a", "", ""),
      CsvRow(1, NoDate, "", "", "", "") }

OldLinks ==
    { [date |-> Day0, youtube_url |-> "http", host |-> "", custom_title |-> ""],
      [date |-> Day1, youtube_url |-> "http", host |-> "neil", custom_title |-> ""] }

\* node update_links.js: readFileSync of the CSV, then one transaction of
\* INSERT OR REPLACE for the rows the script keeps.
UpdateLinks ==
    /\ csvExists
    /\ show_links' = InsertLinks(show_links, ScriptLinks(csv))
    /\ UNCHANGED <<porter, trigram, shows, marker, fsys, proc, resp>>

LinkInit ==
    /\ nShow = 0
    /\ nBest = 0
    /\ csvExists \in BOOLEAN
    /\ csv \in SeqsUpTo(CsvRowKinds, MaxCsvRows)
    /\ porter = {}
    /\ trigram = {}
    /\ shows = {}
    /\ show_links \in SUBSET OldLinks
    /\ marker = FALSE
    /\ pc = "sync"
    /\ downFrom = "never"
    /\ isIndexed = FALSE
    /\ indexingProgress = NoProgress
    /\ allFiles = <<>>
    /\ i = 0
    /\ batch = <<>>
    /\ showsBatch = <<>>
    /\ readFailed = {}
    /\ resp = NoResp

LinkNext == SyncLinks \/ MarkComplete \/ UpdateLinks

LinkSpec == LinkInit /\ [][LinkNext]_vars

(***************************************************************************)
(* The source roots change: transcripts are added to TRANSCRIPTS_DIR and   *)
(* nrs_shows.csv is deleted, between and during the runs of the process,   *)
(* which starts, builds, crashes or exits and starts again.                *)
(***************************************************************************)
\* a new *.txt file appears under TRANSCRIPTS_DIR: the glob of the next build
\* would list it
AddShow ==
    /\ nShow < SmallShows
    /\ nShow' = nShow + 1
    /\ UNCHANGED <<nBest, csvExists, csv, disk, proc, resp>>

\* nrs_shows.csv is deleted from DATA_DIR
RemoveCsv ==
    /\ csvExists
    /\ csvExists' = FALSE
    /\ UNCHANGED <<nShow, nBest, csv, disk, proc, resp>>

GrowNext == BuildNext \/ AddShow \/ RemoveCsv

GrowSpec == Init /\ [][GrowNext]_vars

(***************************************************************************)
(* The build over readable files in a process that stays up.  The steps of *)
(* buildIndex are continuations on the event loop of one process: the      *)
(* synchronous stretches run to their end, and a resolved glob promise or  *)
(* a setImmediate callback stays queued until the loop runs it, whatever   *)
(* requests are handled in between.  Each step of the build is therefore   *)
(* taken eventually once it is enabled (weak fairness); nothing is assumed *)
(* about when the process is started or when requests arrive.              *)
(***************************************************************************)
LiveBuild ==
    \/ DropPorter
    \/ DropTrigram
    \/ DropShows
    \/ GlobDone
    \/ Resume
    \/ ProcessFile
    \/ FinalFlush
    \/ SyncLinks
    \/ MarkComplete

LiveNext ==
    \/ Boot
    \/ LiveBuild
    \/ Status
    \/ Deliver

LiveSpec == Init /\ [][LiveNext]_vars /\ WF_vars(LiveBuild)

(***************************************************************************)
(* Context enrichment: the process has started warm on the complete index  *)
(* of a few shows and a best-of file, and source files are deleted from    *)
(* disk while it serves (the newest show first, or the best-of file).      *)
(***************************************************************************)
SnippetQueries == { <<"suds">>, <<"george">>, <<"rick">>, <<"ric">>, <<Q, "jorge", Q>> }

\* the newest show transcript is deleted from TRANSCRIPTS_DIR
RemoveShow ==
    /\ resp = NoResp
    /\ nShow > 0
    /\ nShow' = nShow - 1
    /\ UNCHANGED <<nBest, csvExists, csv, disk, proc, resp>>

\* a best-of file is deleted from BEST_OF_DIR
RemoveBest ==
    /\ resp = NoResp
    /\ nBest > 0
    /\ nBest' = nBest - 1
    /\ UNCHANGED <<nShow, csvExists, csv, disk, proc, resp>>

SnippetInit ==
    /\ SearchInit
    /\ nShow = MaxSearchShows
    /\ nBest = MaxBest

SnippetNext ==
    \/ /\ resp = NoResp
       /\ \E query \in SnippetQueries, years \in {<<>>, <<1999>>},
             typeParam \in {"", "best_of"} :
               Search(query, years, typeParam, 0)
    \/ Deliver
    \/ RemoveShow
    \/ RemoveBest

SnippetSpec == SnippetInit /\ [][SnippetNext]_vars

(***************************************************************************)
(* The properties.                                                         *)
(***************************************************************************)
FilesOnDisk == Enumerate(nShow, nBest)
NFiles == nShow + nBest
Ids(rows) == {d.id : d \in rows}
IsSearch == resp.kind = "search"

\* The query begins and ends with a double quote and is longer than one
\* character.
Quoted(query) == Len(query) > 1 /\ query[1] = Q /\ query[Len(query)] = Q

\* C1: a search handled while the build is not marked complete gets the
\* 'indexing' signal (503) and no row: neither index is queried.
C1_IndexingSignal ==
    (IsSearch /\ ~isIndexed) =>
        /\ resp.status = 503
        /\ resp.rows = <<>>
        /\ resp.porter.st = "no"
        /\ resp.fuzzy.st = "no"

\* a search is answered 503 while the build awaits and a committed batch of
\* the unfinished generation is on disk
C1_Witness ==
    /\ IsSearch /\ resp.status = 503 /\ resp.q # <<>>
    /\ pc = "yield" /\ porter # {} /\ ~marker

\* C2: the marker is true (and isIndexed set) only when every enumerated
\* file has been processed and committed to both indexes and the registry
\* and the link table has been reconciled; this holds in the states a crash
\* leaves as well.
C2_MarkerMeansComplete ==
    /\ isIndexed => marker
    /\ marker =>
        /\ porter = DocsOfFiles(FilesOnDisk, NFiles)
        /\ trigram = DocsOfFiles(FilesOnDisk, NFiles)
        /\ shows = RowsOfFiles(FilesOnDisk, NFiles)
        /\ csvExists => show_links = CsvLinks

\* the process went down after a complete build of more than one batch
C2_Witness == marker /\ pc = "down" /\ nShow > BatchSize /\ porter # {}

C4_ReadFailureSkipsFile ==
    readFailed # {} =>
        /\ pc # "aborted"
        /\ pc = "done" =>
             /\ marker
             /\ \A k \in 1..NFiles :
                  FilesOnDisk[k] \notin readFailed =>
                      Range(ParseFile(FilesOnDisk[k])) \subseteq porter
             /\ \A d \in porter : d.file \notin readFailed

\* The tables hold what the first k files of the corpus contribute.
HoldsFirst(k) ==
    /\ porter = DocsOfFiles(FilesOnDisk, k)
    /\ trigram = DocsOfFiles(FilesOnDisk, k)
    /\ shows = RowsOfFiles(FilesOnDisk, k)

CrashedInBuild == pc = "down" /\ downFrom \in Building \cup {"aborted"}

C6_WarmStartNoOp ==
    [][ ((pc = "down" /\ marker) \/ pc = "idle") =>
          /\ disk' = disk
          /\ pc' \in {"idle", "down"}
          /\ pc' = "idle" =>
               /\ isIndexed'
               /\ resp'.kind \in {"search", "shows"} => resp'.status # 503 ]_vars

\* a warm start serves rows
C6_Witness ==
    pc = "idle" /\ IsSearch /\ resp.status = 200 /\ Len(resp.rows) > 0

\* C7: with no source file the build completes with empty indexes (marker
\* and isIndexed true), and every non-blank search then returns an empty
\* list, never an error or the 'indexing' signal.
C7_EmptyCorpus ==
    (NFiles = 0 /\ pc = "done") =>
        /\ marker /\ isIndexed
        /\ porter = {} /\ trigram = {}
        /\ (IsSearch /\ trim(resp.q) # <<>>) =>
               resp.status = 200 /\ resp.rows = <<>>

\* The whole result list the request for the first page of a query draws
\* from: the hits of the stemmed index, or those of the trigram index when
\* the fallback runs for the first page.
ResultList(query, years, typeParam) ==
    LET e == expandQuery(query)
    IN IF trim(query) = <<>> \/ ~e.ok THEN <<>>
       ELSE LET isAndSearch == Includes(toUpperCase(e.s), <<SP, "AND", SP>>)
                p == SearchHits("transcripts_fts", query, e.s, isAndSearch, years, typeParam)
                f == SearchHits("transcripts_fts_trigram", query, e.s, isAndSearch,
                                years, typeParam)
            IN IF trim(Without(e.s, {Q, LP, RP})) = <<>> \/ p.st = "threw" THEN <<>>
               ELSE IF ~FuzzyFallback(query, p.rows) THEN p.rows
               ELSE IF f.st = "threw" THEN <<>>
               ELSE f.rows

RowIds(rows) == {rows[k].id : k \in 1..Len(rows)}

\* C11: for one query and one set of filters on an unchanged index, the page
\* at offset 100 shares no segment id with the page at offset 0, and a page
\* requested where fewer than 100 results of the list remain is short.
C11_Pagination ==
    (IsSearch /\ resp.status = 200 /\ isIndexed) =>
        LET list == ResultList(resp.q, resp.years, resp.type)
        IN /\ resp.offset = PageSize =>
                RowIds(resp.rows) \cap RowIds(Page(list, 0)) = {}
           /\ Len(list) - resp.offset < PageSize => Len(resp.rows) < PageSize

\* The query is handled as a show-wide AND search.
IsAndQuery(query) ==
    expandQuery(query).ok
        /\ Includes(toUpperCase(expandQuery(query).s), <<SP, "AND", SP>>)

\* The sub-clauses of an AND search: the expansion of each part of the query.
Clauses(query) ==
    LET parts == SplitAnd(query) IN [k \in 1..Len(parts) |-> expandQuery(parts[k]).s]

\* The index the rows of a response were read from.
ServedFrom(r) ==
    IF r.fuzzy.st = "ok" THEN "transcripts_fts_trigram" ELSE "transcripts_fts"

MatchesClause(c, d, table) == MatchesTokens(Tokens(c, 1, <<>>), d, table)

\* C12: every segment returned for an AND search matches at least one
\* sub-clause, and its file has, for each sub-clause, a segment that matches
\* it; so no segment of a file that lacks a match for a sub-clause is
\* returned.
C12_AndByFile ==
    (IsSearch /\ resp.status = 200 /\ IsAndQuery(resp.q)) =>
        LET cs == Clauses(resp.q)
            table == ServedFrom(resp)
        IN \A j \in 1..Len(resp.rows) :
             LET d == resp.rows[j]
             IN /\ \E k \in 1..Len(cs) : MatchesClause(cs[k], d, table)
                /\ \A k \in 1..Len(cs) :
                      \E x \in TableRows(table) :
                          x.file = d.file /\ MatchesClause(cs[k], x, table)

\* an AND search of two sub-clauses returns a segment that matches one of
\* them and not the other
C12_Witness ==
    /\ IsSearch /\ resp.status = 200 /\ IsAndQuery(resp.q)
    /\ Len(Clauses(resp.q)) = 2
    /\ \E j \in 1..Len(resp.rows) :
         /\ MatchesClause(Clauses(resp.q)[1], resp.rows[j], ServedFrom(resp))
         /\ ~MatchesClause(Clauses(resp.q)[2], resp.rows[j], ServedFrom(resp))

\* C13: every hit a search returns, from the stemmed index or from the fuzzy
\* fallback, has the requested type (show when none is given) and, when
\* years are given, a date in one of them.
C13_FiltersConjoined ==
    (IsSearch /\ resp.status = 200) =>
        \A j \in 1..Len(resp.rows) :
            /\ resp.rows[j].type = (IF resp.type = "" THEN "show" ELSE resp.type)
            /\ resp.years # <<>> =>
                  \E y \in Range(resp.years) : resp.rows[j].date.year = y

\* the fallback returns rows under a year filter and leaves out a segment of
\* the requested type that matches the query but has another date
C13_Witness ==
    /\ IsSearch /\ resp.fuzzy.st = "ok" /\ resp.years # <<>> /\ Len(resp.rows) > 0
    /\ \E x \in trigram :
         /\ x.type = "show" /\ resp.type = ""
         /\ MatchesClause(expandQuery(resp.q).s, x, "transcripts_fts_trigram")
         /\ \A y \in Range(resp.years) : x.date.year # y

\* C14: when the index rejects a match expression of a search, in the
\* stemmed query or in the fallback query, the response is the empty list
\* and not an error.
C14_RejectedGivesEmpty ==
    (IsSearch /\ isIndexed /\ (resp.porter.st = "threw" \/ resp.fuzzy.st = "threw")) =>
        resp.status = 200 /\ resp.rows = <<>>

\* The request ran a statement on one of the indexes.
QueriedIndex(r) == r.porter # NotRun \/ r.fuzzy # NotRun

\* The string holds no letter and no digit.
NoSearchableChar(s) == \A k \in 1..Len(s) : ~IsWord(s[k])

CarriesProgress ==
    \/ resp.kind = "status"
    \/ resp.kind \in {"search", "shows"} /\ resp.status = 503

\* C16: the progress percentage of the status response and of the
\* "Indexing" response of search and of the episode list is an integer
\* between 0 and 100 in every state, also while no file has been enumerated
\* and for a build over no file.
C16_ProgressIsPercent ==
    CarriesProgress => resp.progress \in {<<n>> : n \in 0..100}

\* One row for each date of an admitted row, with the values of the last
\* admitted row of that date.
LastPerDate(rows) ==
    { LinkOf(rows[k]) :
        k \in {k \in 1..Len(rows) :
                 /\ Admitted(rows[k])
                 /\ \A j \in (k + 1)..Len(rows) :
                        ~(Admitted(rows[j]) /\ rows[j].date = rows[k].date)} }

\* C17: a pass that rebuilds the link table from the metadata file (the CSV
\* sync of the build, a run of update_links.js) leaves exactly one row for
\* each date of an admitted row, with the values of the last such row, and
\* no row of a date the file does not list.
C17_LinkTableReplaced ==
    [][((SyncLinks /\ csvExists) \/ UpdateLinks) => show_links' = LastPerDate(csv)]_vars

\* At most one registry row for a file path.
OneRowPerFile == \A r1, r2 \in shows : r1.file = r2.file => r1 = r2

\* One registry row for each enumerated file, and no other.
RegistryComplete ==
    /\ {r.file : r \in shows} = {RelativePath(FilesOnDisk[k]) : k \in 1..NFiles}
    /\ Cardinality(shows) = NFiles

FirstBuildShows == RowsOfFiles(FilesOnDisk, NFiles)
FirstBuildLinks == IF csvExists THEN CsvLinks ELSE {}

\* C19: a build over unchanged files and an unchanged CSV, run on the
\* database an earlier build left, ends with as many registry rows and as
\* many link rows as the first build.
C19_SameCounts ==
    marker =>
        /\ Cardinality(shows) = Cardinality(FirstBuildShows)
        /\ Cardinality(show_links) = Cardinality(FirstBuildLinks)

\* The second build is complete: the process before this one went down
\* after its own complete build, and this one has built again.
C19_Witness ==
    /\ marker /\ pc = "done" /\ downFrom = "done"
    /\ csvExists /\ nShow > BatchSize /\ nBest > 0
    /\ shows # {} /\ show_links # {}

\* C20: the date of a show file comes only from the eight digits after
\* rogers- or lassiter- in its name; every other show file, also one whose
\* name begins with four digits, has the date "Unknown Date" in the registry
\* rows the build of the running process has written.
C20_ShowDateFromHost ==
    pc \notin Dropping \cup {"down"} =>
        \A r \in shows :
            (r.type = "show" /\ ~HasHostDate(FileName(r.file))) => r.date = UnknownDate

\* C8: a quoted query never reaches the trigram index.
C8_VerbatimNoFuzzy ==
    (IsSearch /\ Quoted(resp.q)) => resp.fuzzy.st = "no"

\* a quoted query of three characters or more for which the stemmed index
\* returned no row, where the trigram index holds a segment that matches
C8_Witness ==
    /\ IsSearch /\ resp.q = <<Q, "ric", Q>>
    /\ resp.porter.st = "ok" /\ resp.porter.rows = <<>>
    /\ \E d \in trigram : d.type = "show" /\ Includes(d.text_content, <<"rick">>)

\* C9: no match expression sent for a quoted query holds a thesaurus
\* OR-group.
C9_VerbatimNoThesaurus ==
    (IsSearch /\ Quoted(resp.q)) =>
        \A e \in resp.porter.sent \cup resp.fuzzy.sent : ~Includes(e, ThesaurusGroup)

\* C10: the trigram index is queried exactly when the query is not quoted,
\* the stemmed index ran the query and returned no row, and the query has at
\* least 3 characters (a stemmed query the index rejects returns no rows at
\* all: the request ends there with the empty list); the rows of the
\* response are those of one index, never a union.
C10_FallbackExactlyWhen ==
    IsSearch =>
        /\ resp.fuzzy.st # "no" <=>
             /\ ~Quoted(resp.q)
             /\ resp.porter.st = "ok" /\ Len(resp.porter.rows) = 0
             /\ StrLen(resp.q) >= 3
        /\ resp.fuzzy.st # "no" => resp.porter.rows = <<>>
        /\ resp.status = 200 =>
             resp.rows = IF resp.fuzzy.st # "no" THEN resp.fuzzy.rows ELSE resp.porter.rows

\* the fallback found rows the stemmed index did not
C10_Witness ==
    IsSearch /\ resp.fuzzy.st = "ok" /\ Len(resp.rows) > 0 /\ resp.porter.rows = <<>>


\* C21: a process start that finds transcript files on disk that the registry
\* does not hold performs the drop/recreate rebuild.
C21_StartRebuildsForNewFiles ==
    [][(pc = "down" /\ pc' # "down"
            /\ shows # RowsOfFiles(FilesOnDisk, NFiles))
        => pc' = "drop_fts"]_vars

\* a file was added after a completed build, and the process has started
\* again: it serves the index that lacks the file
C21_StaleStart ==
    /\ pc = "idle" /\ marker /\ isIndexed
    /\ nShow > 0
    /\ \A r \in shows : r.file # RelativePath(ShowFile(nShow))

\* C21 as the code has it: a start on a marked database never rebuilds and
\* never changes the tables, whatever the source roots hold
C21_MarkedStartSkips ==
    [][(pc = "down" /\ pc' # "down" /\ marker)
        => (pc' = "idle" /\ isIndexed' /\ UNCHANGED disk)]_vars


\* C22: within one process lifetime a build is started only by the process
\* start, so at most once, and a build that has ended (complete, aborted or
\* skipped) is never followed by another one before the process goes down;
\* every step that changes an index, the registry, the link table or the
\* marker is a step of the build, and sends no response.
C22_OneBuildOneWriter ==
    [][/\ (pc' = "drop_fts" /\ pc # "drop_fts") => pc = "down"
       /\ pc \in {"done", "aborted", "idle"} => pc' \in {pc, "down"}
       /\ disk' # disk => (pc \in Building /\ pc' \in Building \cup {"done"}
                             /\ resp' = resp)]_vars

\* a request is answered in the lifetime in which the build has completed
C22_Witness ==
    pc = "done" /\ marker /\ resp # NoResp /\ porter # {}


\* The positions of the segments the parser yields for the files on disk.
SegmentPositions ==
    UNION { {<<n, k>> : k \in 1..Len(ParseFile(FilesOnDisk[n]))} : n \in 1..NFiles }

\* C23: after a completed build each index has one row per parsed segment
\* and no two of its rows share an id, each id is the pair of the row's file
\* and line offset, and the segments of one file have strictly increasing
\* line offsets in the order the parser emits them.
C23_SegmentIdsUnique ==
    marker =>
        /\ \A idx \in {porter, trigram} :
             /\ Cardinality(idx) = Cardinality(SegmentPositions)
             /\ Cardinality(Ids(idx)) = Cardinality(idx)
             /\ \A d \in idx : d.id = <<d.file, d.line>>
        /\ \A n \in 1..NFiles :
             LET docs == ParseFile(FilesOnDisk[n]) IN
             \A a, b \in 1..Len(docs) : a < b => docs[a].line < docs[b].line

\* the completed build of 51 shows and a best-of file, with files of several
\* segments
C23_Witness ==
    /\ marker /\ nShow = MaxShows /\ nBest = MaxBest
    /\ \E d, e \in porter : d.file = e.file /\ d.line # e.line


\* The hits of the stemmed index for a query, before LIMIT and OFFSET.
StemmedHits(query, years, typeParam) ==
    LET e == expandQuery(query)
    IN IF trim(query) = <<>> \/ ~e.ok THEN <<>>
       ELSE SearchHits("transcripts_fts", query, e.s, IsAndSearch(e.s), years, typeParam).rows

\* C24: a page of a non-verbatim query for which the stemmed index has at
\* least one hit (so that the page at offset 0 came from the stemmed index)
\* is served from the stemmed index, at every offset.
C24_PagesFromOneIndex ==
    (IsSearch /\ resp.status = 200 /\ ~Quoted(resp.q)
        /\ Len(StemmedHits(resp.q, resp.years, resp.type)) > 0)
    => ServedFrom(resp) = "transcripts_fts"

\* C24 as the code has it: the page is served from the stemmed index when
\* its offset lies inside the stemmed hit list, and from the trigram index
\* when the offset is at or past the end of that list and the query has three
\* characters or more.
C24_PagesWithinStemmedList ==
    (IsSearch /\ resp.status = 200 /\ ~Quoted(resp.q)
        /\ Len(StemmedHits(resp.q, resp.years, resp.type)) > 0)
    => (ServedFrom(resp) = "transcripts_fts"
           <=> (resp.offset < Len(StemmedHits(resp.q, resp.years, resp.type))
                  \/ StrLen(resp.q) < MinFuzzyLen))

\* a later page of a query whose first page came from the stemmed index is
\* cut from the trigram index
C24_MixedPages ==
    /\ IsSearch /\ resp.status = 200 /\ resp.q = <<"rick">> /\ resp.offset = PageSize
    /\ Len(StemmedHits(resp.q, resp.years, resp.type)) > 0
    /\ ServedFrom(resp) = "transcripts_fts_trigram" /\ Len(resp.rows) > 0


\* C25: a started build over readable files completes: once the process is
\* up the ready flag eventually becomes true, and it stays true; the
\* processed-file count never exceeds the total and never decreases.
C25_BuildCompletes ==
    /\ (pc # "down") ~> isIndexed
    /\ [][isIndexed => isIndexed']_vars
    /\ [](indexingProgress.current <= indexingProgress.total)
    /\ [][indexingProgress'.current >= indexingProgress.current]_vars

\* the build of 51 shows and a best-of file has completed, every file counted
C25_Witness ==
    /\ pc = "done" /\ isIndexed /\ nShow = MaxShows /\ nBest = MaxBest
    /\ indexingProgress.current = NFiles /\ indexingProgress.total = NFiles


\* The lines of a file from 0-based line a through line b.
LinesFromTo(f, a, b) == [m \in 1..(b - a + 1) |-> FileLines(f)[a + m]]

\* C26: a search response carries one snippet per hit, and all the hits of
\* the page; the snippet of a hit whose file can be read is the lines of the
\* file from the hit's line offset through offset+6 or the last line of the
\* file, whichever comes first (at most 7 lines), and the snippet of a hit
\* whose file cannot be read is the stored text of the segment.
C26_SnippetWindow ==
    (IsSearch /\ resp.status = 200) =>
        /\ resp.rows = Page(ResultList(resp.q, resp.years, resp.type), resp.offset)
        /\ Len(resp.snippets) = Len(resp.rows)
        /\ \A k \in 1..Len(resp.rows) :
             LET hit == resp.rows[k]
                 s == resp.snippets[k]
                 last == Len(FileLines(hit.file)) - 1
             IN IF OnDisk(hit.file)
                THEN /\ s.src = "file"
                     /\ Len(s.lines) <= 7
                     /\ s.lines = LinesFromTo(hit.file, hit.line,
                                              IF hit.line + 6 < last THEN hit.line + 6 ELSE last)
                ELSE /\ s.src = "stored"
                     /\ s.text = hit.text_content

\* C26 as the code has it: the same, but the file of a hit counts as
\* unreadable also when it is a show filed under TRANSCRIPTS_DIR/best-of, which
\* is looked for under BEST_OF_DIR.
C26_SnippetWindowByPrefix ==
    (IsSearch /\ resp.status = 200) =>
        /\ resp.rows = Page(ResultList(resp.q, resp.years, resp.type), resp.offset)
        /\ Len(resp.snippets) = Len(resp.rows)
        /\ \A k \in 1..Len(resp.rows) :
             LET hit == resp.rows[k]
                 s == resp.snippets[k]
                 last == Len(FileLines(hit.file)) - 1
             IN IF OnDisk(hit.file) /\ SubDir(hit.file) # "best-of"
                THEN /\ s.src = "file"
                     /\ Len(s.lines) <= 7
                     /\ s.lines = LinesFromTo(hit.file, hit.line,
                                              IF hit.line + 6 < last THEN hit.line + 6 ELSE last)
                ELSE /\ s.src = "stored"
                     /\ s.text = hit.text_content

\* the file of a hit is on disk and the snippet is the stored text
C26_ReadableButStored ==
    /\ IsSearch /\ resp.status = 200
    /\ \E k \in 1..Len(resp.rows) :
         OnDisk(resp.rows[k].file) /\ resp.snippets[k].src = "stored"



\* The 0-based numbers of the marker lines of a file, in source order.
MarkerLines(lines) == {j \in 0..(Len(lines) - 1) : lines[j + 1].k = "marker"}

\* The text of the segment that starts at marker line j: for every
\* non-blank line after j and before the next marker (or the end of the
\* file), in source order, a space and the trimmed line.
RECURSIVE TextAfter(_, _)
TextAfter(lines, j) ==
    IF j + 1 >= Len(lines) \/ lines[j + 2].k = "marker" THEN <<>>
    ELSE (IF lines[j + 2].k = "blank" THEN <<>> ELSE <<SP, lines[j + 2].w>>)
            \o TextAfter(lines, j + 1)

\* C27: for every show file of a completed build the parser yields one
\* segment per marker line, in source order; the text of a segment is made
\* of the non-blank lines between its marker and the next marker or the end
\* of the file and of nothing else; no segment starts at or holds a line
\* that precedes the first marker.
C27_OneSegmentPerMarker ==
    marker =>
        \A n \in 1..nShow :
            LET f == ShowFile(n)
                lines == FileLines(f)
                docs == ParseFile(f)
            IN /\ Len(docs) = Cardinality(MarkerLines(lines))
               /\ \A k \in 1..Len(docs) :
                    /\ docs[k].line \in MarkerLines(lines)
                    /\ Cardinality({j \in MarkerLines(lines) : j < docs[k].line}) = k - 1
                    /\ docs[k].text_content = TextAfter(lines, docs[k].line)
                    /\ docs[k] \in porter /\ docs[k] \in trigram
               /\ \A d \in porter : d.file = RelativePath(f) => d \in Range(docs)

\* the completed build holds a show whose first line precedes its first
\* marker, a segment of several lines with a blank line among them, and a
\* segment with no text
C27_Witness ==
    /\ marker /\ nShow = MaxShows
    /\ FileLines(ShowFile(2))[1].k = "text"
    /\ \E d \in porter : d.file = RelativePath(ShowFile(2)) /\ d.line = 1
    /\ \E d \in porter : d.file = RelativePath(ShowFile(1)) /\ Len(d.text_content) = 6
    /\ \E d \in porter : d.type = "show" /\ d.text_content = <<>>


\* C28: the drop/recreate step and the ingestion of the files (every batch
\* flush included) leave the link table as it was, and a build that runs its
\* sync step while nrs_shows.csv is absent leaves it as it was too.
C28_LinkTableUntouched ==
    [][/\ pc \in Dropping \cup Ingesting => show_links' = show_links
       /\ (pc = "sync" /\ ~csvExists) => show_links' = show_links]_vars

\* a rebuild without nrs_shows.csv has dropped and filled the indexes and the
\* registry and has passed the sync step with link rows in the table
C28_Witness ==
    /\ pc = "mark" /\ ~csvExists /\ show_links # {}
    /\ downFrom # "never" /\ Cardinality(shows) > BatchSize


\* C29: a step that answers a request (search, episode list, build status
\* or raw transcript) leaves both indexes, the registry, the link table, the
\* marker, the ready flag, the progress counters and the position and
\* batches of the build unchanged, and so does every sequence of such steps.
C29_HandlersReadOnly ==
    [][(resp = NoResp /\ resp' # NoResp)
        => (UNCHANGED disk /\ UNCHANGED fsys /\ UNCHANGED proc)]_vars

\* a request has been answered during a build, between two batches, with
\* rows on disk
C29_Witness ==
    /\ pc = "yield" /\ i = BatchSize /\ porter # {}
    /\ resp # NoResp /\ resp.kind = "transcript"


\* C30: the build reaches the file at every index that is a multiple of 50
\* only through a yield at that index, so at most 50 files are processed
\* between two yields; and at every yield the pending batches are empty: the
\* segments and the registry rows of all i files processed so far are
\* committed.
C30_YieldsWithEmptyBatch ==
    /\ [][(pc' = "file" /\ i' % YieldEvery = 0 /\ (pc # "file" \/ i # i'))
            => (pc = "yield" /\ i' = i)]_vars
    /\ [](pc = "yield" =>
            /\ batch = <<>> /\ showsBatch = <<>>
            /\ i % YieldEvery = 0
            /\ DocsOfFiles(allFiles, i) \subseteq porter
            /\ DocsOfFiles(allFiles, i) \subseteq trigram
            /\ RowsOfFiles(allFiles, i) \subseteq shows)

\* a request is answered at the yield after the first 50 files, whose rows
\* are on disk
C30_Witness ==
    /\ pc = "yield" /\ i = YieldEvery /\ Len(allFiles) > YieldEvery
    /\ resp # NoResp
    /\ Cardinality(shows) >= BatchSize

====
